---- MODULE Spec2Model ----
(***************************************************************************)
(* Model of honeycomb_cleaner.client.HoneycombClient: the retry layer      *)
(* (_make_request_with_retry, _handle_rate_limit) and the six operations   *)
(* built on it.  One retry-loop iteration is one step; the server's answer *)
(* to each request is an input of that step.                               *)
(* Model of honeycomb_cleaner.main: the inactivity classifier, and the     *)
(* command line workflow with the client class main.py defines for it.     *)
(***************************************************************************)
EXTENDS Integers, Sequences, FiniteSets, TLC

VARIABLES
    self,        \* the client object: api_key, and the session with its headers
    op,          \* the operation the caller invoked ("none" before the first call)
    disable_protection, \* delete_dataset's flag for the current call
    caller,      \* the function whose try block is running the retry layer
    pc,          \* "idle" | "retry" (inside the loop) | "returned" | "done" | "exited"
    attempt,     \* loop variable of _make_request_with_retry
    method,      \* HTTP method of the current retry-layer invocation
    kwargs,      \* json= payload of the current retry-layer invocation ("none" if absent)
    log,         \* events of the current retry-layer invocation (requests and waits)
    http,        \* every request issued by the current operation: method, json payload
                 \* and the attempt number it was sent on
    ret,         \* what the retry layer handed to its caller
    rets,        \* what each retry-layer invocation of the current operation handed back
    rate_limit,  \* the latest _handle_rate_limit call of the current retry-layer
                 \* invocation: header, clock reading, seconds slept, lines printed
    out,         \* lines printed by the current operation outside the retry layer
    result       \* outcome of the operation

client_vars == <<self, op, disable_protection, caller, pc, attempt, method, kwargs, log, http,
                 ret, rets, rate_limit, out, result>>

\* main.py: the classifier calls of a run
VARIABLES
    records,     \* the records handed to the classifier, as the API listed them
    days,        \* the retention window (--days)
    verdicts     \* one entry per classifier call: the function, the clock reading, the
                 \* outcome, and the record as the call found it and left it

classifier_vars == <<records, days, verdicts>>

\* main.py: the command line workflow
VARIABLES
    args,        \* parse_arguments(): delete, delete_protected, name, check_columns,
                 \* delete_columns (days is the variable above)
    cli_pc,      \* position in main()
    active_datasets, inactive_datasets, filtered_out_datasets,  \* categorize_datasets
    datasets_with_inactive_columns,   \* process_column_cleanup's list of results
    cursor,      \* index of the running for loop
    answers,     \* the answer given to each confirmation prompt ("unasked" before it)
    calls,       \* client calls of the run, in order
    deleted,     \* deleted_columns and deleted_count
    cli_out,     \* summary and skip lines printed by the deletion loops
    exit_status  \* how the process ended

cli_vars == <<args, cli_pc, active_datasets, inactive_datasets, filtered_out_datasets,
              datasets_with_inactive_columns, cursor, answers, calls, deleted, cli_out,
              exit_status>>

vars == <<client_vars, classifier_vars, cli_vars>>

----------------------------------------------------------------------------
(* Bounds of the input space *)

MaxRetryAfter == 1      \* integer Retry-After headers are 0, MaxRetryAfter, 10 * MaxRetryAfter
MaxItems == 1           \* JSON list bodies have 0..MaxItems items
MaxSkew == 1            \* HTTP-date headers and the clock range over 0..MaxSkew

----------------------------------------------------------------------------
(* Strings of the Retry-After header, as sequences of characters *)

DigitChars == <<"0", "1", "2", "3", "4", "5", "6", "7", "8", "9">>

IsDigitChar(c) == \E i \in 1..10 : DigitChars[i] = c

DigitVal_index(c) == CHOOSE i \in 1..10 : DigitChars[i] = c

DigitVal(c) == (CHOOSE i \in 1..10 : DigitChars[i] = c) - 1

\* str.isdigit(): non-empty and every character a digit
isdigit(s) == Len(s) > 0 /\ \A i \in 1..Len(s) : IsDigitChar(s[i])

\* int(s) for a digit string
RECURSIVE int(_)
int(s) == IF Len(s) = 0 THEN 0
          ELSE 10 * int(SubSeq(s, 1, Len(s) - 1)) + DigitVal(s[Len(s)])

\* decimal text of a natural number (how a server writes the header)
RECURSIVE DecimalText(_)
DecimalText(n) == IF n < 10 THEN <<DigitChars[n + 1]>>
                  ELSE DecimalText(n \div 10) \o <<DigitChars[(n % 10) + 1]>>

\* A header is absent, a text, or a well-formed HTTP-date naming instant t.
AbsentHeader == [k |-> "absent", chars |-> <<>>, t |-> 0]
TextHeader(s) == [k |-> "text", chars |-> s, t |-> 0]
DateHeader(t) == [k |-> "httpdate", chars |-> <<>>, t |-> t]

\* delays a server announces in seconds: none, a one-digit and a two-digit one
RetryAfterSeconds == {0, MaxRetryAfter, 10 * MaxRetryAfter}

RetryAfterHeaders ==
    {AbsentHeader, TextHeader(<<>>), TextHeader(<<"-", "1">>), TextHeader(<<"x">>)}
    \cup {TextHeader(DecimalText(n)) : n \in RetryAfterSeconds}
    \cup {DateHeader(t) : t \in 0..MaxSkew}

Nows == 0..MaxSkew

----------------------------------------------------------------------------
(* Responses *)

NoJson == [t |-> "invalid", error |-> "absent", environment |-> "absent",
           team |-> "absent", items |-> 0]
JsonObj(e, env, tm) == [t |-> "obj", error |-> e, environment |-> env,
                        team |-> tm, items |-> 0]
JsonList(n) == [t |-> "list", error |-> "absent", environment |-> "absent",
                team |-> "absent", items |-> n]

SuccessBodies ==
    {NoJson} \cup {JsonList(n) : n \in 0..MaxItems}
    \cup {JsonObj("absent", env, tm) : env \in {"absent", "present"},
                                       tm \in {"absent", "present"}}

\* error bodies: no JSON; an object without an error field; one whose error field is a
\* text without or with "delete protected"; one whose error field is no text
ErrorBodies == {NoJson, JsonObj("absent", "absent", "absent"),
                JsonObj("other", "absent", "absent"),
                JsonObj("prot", "absent", "absent"),
                JsonObj("nonstring", "absent", "absent")}

SuccessStatuses == {200}
ErrorStatuses == {401, 409, 500}

Response(s, h, tp, j) == [status |-> s, retry_after |-> h, text_prot |-> tp, json |-> j]

NoResponse == Response(0, AbsentHeader, FALSE, NoJson)

Responses ==
    {Response(s, AbsentHeader, FALSE, j) : s \in SuccessStatuses, j \in SuccessBodies}
    \cup {Response(s, AbsentHeader, tp, j) :
            s \in ErrorStatuses, tp \in BOOLEAN, j \in ErrorBodies}
    \cup {Response(429, h, FALSE, j) : h \in RetryAfterHeaders, j \in {NoJson}}

\* What one session.request call can produce: a response, or a
\* requests.exceptions.RequestException raised by the transport.
TransportFailure == [kind |-> "exception", response |-> NoResponse, has_response |-> FALSE]
Returned(r) == [kind |-> "response", response |-> r, has_response |-> TRUE]
ServerBehaviours == {TransportFailure} \cup {Returned(r) : r \in Responses}

NoRet == [kind |-> "none", response |-> NoResponse, has_response |-> FALSE]

----------------------------------------------------------------------------
(* Events and messages *)

\* got: the status code received, 0 when the transport raised instead
ReqEvent(m, a, srv) ==
    [e |-> "request", m |-> m, a |-> a, secs |-> 0,
     got |-> IF srv.kind = "exception" THEN 0 ELSE srv.response.status, msgs |-> {}]
\* the call of _handle_rate_limit on attempt a; what it slept and printed is kept in
\* rate_limit
RateLimitEvent(a) ==
    [e |-> "rate_limit_wait", m |-> "", a |-> a, secs |-> 0, got |-> 0, msgs |-> {}]
SleepEvent(a, secs) ==
    [e |-> "transport_wait", m |-> "", a |-> a, secs |-> secs, got |-> 0,
     msgs |-> {"Request failed, retrying"}]

\* what a retry-layer invocation with method m handed back, as the operations see it
Outcome(m, r) ==
    [m |-> m, kind |-> r.kind, status |-> r.response.status,
     text_prot |-> r.response.text_prot, json_t |-> r.response.json.t,
     error |-> r.response.json.error]

\* a line printed by an operation; code is the HTTP status it shows, 0 if none
Msg(text, code) == [msg |-> text, code |-> code]

----------------------------------------------------------------------------
(* _handle_rate_limit *)

Max_unclamped(a, b) == b

Max(a, b) == IF a > b THEN a ELSE b

DefaultWait_none == 60 - 60

\* line 35: the wait when the response has no Retry-After header
DefaultWait == 60

FallbackWait_none == 60 - 60

\* line 57: the wait when the Retry-After header cannot be parsed
FallbackWait == 60

\* line 47 reads the clock only on the HTTP-date branch
ReadsClock(response) == response.retry_after.k = "httpdate"

\* no _handle_rate_limit call yet
NoRateLimit == [retry_after |-> AbsentHeader, now |-> 0, secs |-> 0, msgs |-> {},
                called |-> FALSE]

\* seconds slept and messages printed for a 429 response, at clock value now
_handle_rate_limit(response, now) ==
    LET retry_after == response.retry_after IN
    IF retry_after.k = "absent" \/ (retry_after.k = "text" /\ retry_after.chars = <<>>)
    THEN [secs |-> DefaultWait,
          msgs |-> {"Rate limited but no Retry-After header found"}]
    ELSE IF retry_after.k = "text" /\ isdigit(retry_after.chars)
    THEN LET wait_seconds == int(retry_after.chars) IN
         [secs |-> wait_seconds,
          msgs |-> IF wait_seconds > 0 THEN {"Rate limited, waiting"} ELSE {}]
    ELSE IF retry_after.k = "httpdate"
    THEN LET wait_seconds == Max(0, retry_after.t - now) IN
         [secs |-> wait_seconds,
          msgs |-> IF wait_seconds > 0 THEN {"Rate limited, waiting"} ELSE {}]
    ELSE [secs |-> FallbackWait, msgs |-> {"Error parsing Retry-After header",
                                           "Waiting 60 seconds as fallback"}]

----------------------------------------------------------------------------
(* _make_request_with_retry *)

max_retries_4 == 3 + 1

max_retries == 3

IsRateLimited_or_above(response) == response.status >= 429

\* line 66
IsRateLimited(response) == response.status = 429

RateLimitRetry_every_attempt(a) == a < max_retries

RateLimitRetry_once(a) == a < max_retries - 2

\* line 67: a 429 is retried unless this is the last attempt
RateLimitRetry(a) == a < max_retries - 1

TransportRetry_every_attempt(a) == a <= max_retries - 1

\* line 74: a transport failure is retried unless this is the last attempt
TransportRetry(a) == a < max_retries - 1

\* seconds slept before retrying after a transport failure (line 76)
TransportWait == 1

raises_for_status_server_errors_only(r) == 500 <= r.status /\ r.status < 600

raises_for_status(r) == 400 <= r.status /\ r.status < 600

\* API keys a client is constructed with
ApiKeys == {"key1", "key2"}

\* lines 22-24: the headers __init__ puts on the session
Headers(api_key) == [team |-> api_key, content_type |-> "application/json"]

\* lines 19-24: the object __init__ leaves
Client(api_key) == [api_key |-> api_key, session |-> [headers |-> Headers(api_key)]]

RequestHeaders_bare(session, body) ==
    [team |-> "absent",
     content_type |-> IF body = "none" THEN "absent" ELSE "application/json"]

\* line 64: the request is self.session.request(...), so it is sent with the
\* session's headers; kwargs carries no headers of its own
RequestHeaders(session, body) == session.headers

\* a retry layer that goes on counting where the previous invocation stopped
EnterRetry_keeping_attempt(f, m, body) ==
    /\ caller' = f
    /\ method' = m
    /\ kwargs' = body
    /\ attempt' = attempt
    /\ log' = <<>>
    /\ ret' = NoRet
    /\ rate_limit' = NoRateLimit
    /\ pc' = "retry"

\* entering the retry layer from function f with HTTP method m
EnterRetry(f, m, body) ==
    /\ caller' = f
    /\ method' = m
    /\ kwargs' = body
    /\ attempt' = 0
    /\ log' = <<>>
    /\ ret' = NoRet
    /\ rate_limit' = NoRateLimit
    /\ pc' = "retry"

\* One iteration of the for loop: the request, then return / raise / wait-and-continue.
\* A continue on the last iteration would leave the loop and reach line 80; both
\* retry guards are false there, so the step then ends in return or raise instead.
_make_request_with_retry ==
    /\ pc = "retry"
    /\ attempt < max_retries
    /\ \E srv \in ServerBehaviours, now \in Nows :
        LET sent == Append(log, ReqEvent(method, attempt, srv)) IN
        /\ (srv.kind = "response" /\ ReadsClock(srv.response)) \/ now = 0
        /\ http' = Append(http, [m |-> method, json |-> kwargs, a |-> attempt,
                                 headers |-> RequestHeaders(self.session, kwargs)])
        /\ IF srv.kind = "exception"
           THEN IF TransportRetry(attempt)
                THEN /\ log' = Append(sent, SleepEvent(attempt, TransportWait))
                     /\ attempt' = attempt + 1
                     /\ rate_limit' = rate_limit
                     /\ ret' = IF attempt + 1 < max_retries THEN ret
                               ELSE Returned(NoResponse)
                     /\ pc' = IF attempt + 1 < max_retries THEN "retry" ELSE "returned"
                ELSE /\ log' = sent
                     /\ ret' = srv
                     /\ pc' = "returned"
                     /\ attempt' = attempt
                     /\ rate_limit' = rate_limit
           ELSE IF IsRateLimited(srv.response) /\ RateLimitRetry(attempt)
                THEN LET w == _handle_rate_limit(srv.response, now) IN
                     /\ log' = Append(sent, RateLimitEvent(attempt))
                     /\ rate_limit' = [retry_after |-> srv.response.retry_after,
                                       now |-> now, secs |-> w.secs, msgs |-> w.msgs,
                                       called |-> TRUE]
                     /\ attempt' = attempt + 1
                     /\ ret' = IF attempt + 1 < max_retries THEN ret ELSE srv
                     /\ pc' = IF attempt + 1 < max_retries THEN "retry" ELSE "returned"
                ELSE /\ log' = sent
                     /\ ret' = srv
                     /\ pc' = "returned"
                     /\ attempt' = attempt
                     /\ rate_limit' = rate_limit
    /\ rets' = IF pc' = "returned" THEN Append(rets, Outcome(method, ret')) ELSE rets
    /\ UNCHANGED <<op, disable_protection, caller, method, kwargs, out, result>>
    /\ UNCHANGED <<self, classifier_vars, cli_vars>>

----------------------------------------------------------------------------
(* Outcomes of an operation *)

NoResult == [kind |-> "none", bool |-> FALSE, data |-> NoJson, exc |-> "", code |-> 0]
ReturnBool(b) == [kind |-> "return", bool |-> b, data |-> NoJson, exc |-> "", code |-> 0]
ReturnData(j) == [kind |-> "return", bool |-> FALSE, data |-> j, exc |-> "", code |-> 0]
Raise(x) == [kind |-> "raise", bool |-> FALSE, data |-> NoJson, exc |-> x, code |-> 0]
Exit(c) == [kind |-> "exit", bool |-> FALSE, data |-> NoJson, exc |-> "", code |-> c]

\* the try block's request failed: the retry layer re-raised a transport failure
TransportFailed(r) == r.kind = "exception"

\* the try block's raise_for_status() raised HTTPError (e.response is the response)
HttpFailed(r) == r.kind = "response" /\ raises_for_status(r.response)

\* neither: the statements after raise_for_status() run
Succeeded(r) == r.kind = "response" /\ ~raises_for_status(r.response)

\* operation finished with outcome res
Finish(res) ==
    /\ result' = res
    /\ pc' = IF res.kind = "exit" THEN "exited" ELSE "done"
    /\ UNCHANGED <<op, disable_protection, caller, attempt, method, kwargs, log, http, ret,
                   rets, rate_limit>>

\* the "  -> <error>" line printed when the error body is a JSON object with an error field
ErrorDetail(response) ==
    IF response.json.t = "obj" /\ response.json.error # "absent"
    THEN {Msg("error detail", 0)} ELSE {}

----------------------------------------------------------------------------
(* The operations *)

Operations == {"get_environment_info", "get_columns", "delete_column", "get_datasets",
               "disable_deletion_protection", "delete_dataset"}

MethodOf(o) == CASE o \in {"get_environment_info", "get_columns", "get_datasets"} -> "GET"
                 [] o \in {"delete_column", "delete_dataset"} -> "DELETE"
                 [] o = "disable_deletion_protection" -> "PUT"

\* line 157
payload == "settings.delete_protected=false"

PayloadOf_none(o) == "none"

PayloadOf(o) == IF o = "disable_deletion_protection" THEN payload ELSE "none"

\* the caller invokes an operation of the client; the operation builds its url and
\* enters the retry layer
Call ==
    /\ pc \in {"idle", "done"}
    /\ \E o \in Operations, dp \in BOOLEAN :
        /\ op' = o
        /\ disable_protection' = (o = "delete_dataset" /\ dp)
        /\ EnterRetry(o, MethodOf(o), PayloadOf(o))
    /\ http' = <<>>
    /\ rets' = <<>>
    /\ out' = {}
    /\ result' = NoResult
    /\ UNCHANGED <<self, classifier_vars, cli_vars>>

Default == "default"

auth_info_get(value) == IF value = "absent" THEN Default ELSE value

EnvironmentInfo_all_or_nothing(auth_info) ==
    IF auth_info.environment = "absent" \/ auth_info.team = "absent"
    THEN JsonObj("absent", Default, Default)
    ELSE JsonObj("absent", auth_info.environment, auth_info.team)

\* lines 90-95: each key looked up with its own default
EnvironmentInfo(auth_info) ==
    JsonObj("absent", auth_info_get(auth_info.environment), auth_info_get(auth_info.team))

get_environment_info ==
    /\ pc = "returned" /\ caller = "get_environment_info"
    /\ \E json_error_is_request_exception \in BOOLEAN :
        IF Succeeded(ret)
        THEN LET auth_info == ret.response.json IN
             IF auth_info.t = "invalid"
             THEN IF json_error_is_request_exception
                  THEN /\ out' = out \cup {Msg("Error fetching environment info", 0)}
                       /\ Finish(ReturnData(JsonObj("absent", Default, Default)))
                  ELSE /\ out' = out
                       /\ Finish(Raise("JSONDecodeError"))
             ELSE IF auth_info.t = "list"
             THEN /\ out' = out
                  /\ Finish(Raise("AttributeError"))
             ELSE /\ out' = out
                  /\ Finish(ReturnData(EnvironmentInfo(auth_info)))
        ELSE /\ out' = out \cup {Msg("Error fetching environment info", 0)}
             /\ Finish(ReturnData(JsonObj("absent", Default, Default)))
    /\ UNCHANGED <<self, classifier_vars, cli_vars>>

\* line 112: hasattr(e, "response") holds of every RequestException; e.response is None
\* unless raise_for_status() raised, and None has no status_code
get_columns ==
    /\ pc = "returned" /\ caller = "get_columns"
    /\ IF Succeeded(ret)
       THEN IF ret.response.json.t = "invalid"
            THEN /\ out' = out
                 /\ \E x \in {"AttributeError", "JSONDecodeError"} : Finish(Raise(x))
            ELSE /\ out' = out
                 /\ Finish(ReturnData(ret.response.json))
       ELSE IF ~ret.has_response
       THEN /\ out' = out
            /\ Finish(Raise("AttributeError"))
       ELSE IF ret.response.status = 401
       THEN /\ out' = out \cup {Msg("Error fetching columns: Unauthorized (401)", 0),
                                Msg("API key may lack permission", 0)}
            /\ Finish(ReturnData(JsonList(0)))
       ELSE /\ out' = out \cup {Msg("Error fetching columns", 0)}
            /\ Finish(ReturnData(JsonList(0)))
    /\ UNCHANGED <<self, classifier_vars, cli_vars>>

delete_column ==
    /\ pc = "returned" /\ caller = "delete_column"
    /\ IF Succeeded(ret)
       THEN /\ out' = out
            /\ Finish(ReturnBool(TRUE))
       ELSE IF ret.has_response
       THEN /\ out' = out \cup {Msg("FAILED - Error deleting column", ret.response.status)}
                        \cup ErrorDetail(ret.response)
            /\ Finish(ReturnBool(FALSE))
       ELSE /\ out' = out \cup {Msg("FAILED - Error deleting column", 0)}
            /\ Finish(ReturnBool(FALSE))
    /\ UNCHANGED <<self, classifier_vars, cli_vars>>

get_datasets_on_error_returns_empty == ReturnData(JsonList(0))

\* lines 149-151
get_datasets_on_error == Exit(1)

get_datasets ==
    /\ pc = "returned" /\ caller = "get_datasets"
    /\ \E json_error_is_request_exception \in BOOLEAN :
        IF Succeeded(ret)
        THEN IF ret.response.json.t = "invalid"
             THEN IF json_error_is_request_exception
                  THEN /\ out' = out \cup {Msg("Error fetching datasets", 0)}
                       /\ Finish(get_datasets_on_error)
                  ELSE /\ out' = out
                       /\ Finish(Raise("JSONDecodeError"))
             ELSE /\ out' = out
                  /\ Finish(ReturnData(ret.response.json))
        ELSE /\ out' = out \cup {Msg("Error fetching datasets", 0)}
             /\ Finish(get_datasets_on_error)
    /\ UNCHANGED <<self, classifier_vars, cli_vars>>

DisableSucceeded_unchecked(r) == TRUE

\* lines 159-171: the boolean disable_deletion_protection returns
DisableSucceeded(r) == Succeeded(r)

\* a delete_dataset that takes the successful PUT for the deletion
disable_deletion_protection_without_retry ==
    /\ pc = "returned" /\ caller = "disable_deletion_protection"
    /\ out' = IF Succeeded(ret) THEN out
              ELSE IF ret.has_response
              THEN out \cup {Msg("FAILED - Error disabling protection", ret.response.status)}
              ELSE out \cup {Msg("FAILED - Error disabling protection", 0)}
    /\ Finish(ReturnBool(DisableSucceeded(ret)))
    /\ UNCHANGED <<self, classifier_vars, cli_vars>>

disable_deletion_protection ==
    /\ pc = "returned" /\ caller = "disable_deletion_protection"
    /\ out' = IF Succeeded(ret) THEN out
              ELSE IF ret.has_response
              THEN out \cup {Msg("FAILED - Error disabling protection", ret.response.status)}
              ELSE out \cup {Msg("FAILED - Error disabling protection", 0)}
    /\ IF op = "disable_deletion_protection"
       THEN Finish(ReturnBool(DisableSucceeded(ret)))
       ELSE \* called from _retry_delete_after_unprotect, lines 226-231
            IF ~DisableSucceeded(ret)
            THEN Finish(ReturnBool(FALSE))
            ELSE /\ EnterRetry("_retry_delete_after_unprotect", "DELETE", "none")
                 /\ UNCHANGED <<op, disable_protection, http, rets, result>>
    /\ UNCHANGED <<self, classifier_vars, cli_vars>>

_is_deletion_protected_text_only(response) == response.text_prot

\* lines 208-220
_is_deletion_protected(response) ==
    \/ response.text_prot
    \/ response.json.t = "obj" /\ response.json.error = "prot"

\* line 218: error_details["error"].lower() raises AttributeError on an error field
\* that is no text, and line 219 catches only ValueError and KeyError
_is_deletion_protected_raises(response) ==
    /\ ~response.text_prot
    /\ response.json.t = "obj" /\ response.json.error = "nonstring"

ShouldUnprotect_ignoring_flag(response, dp) ==
    response.status = 409 /\ _is_deletion_protected(response)

\* lines 197-201: the condition under which the protection is lifted and the delete retried
ShouldUnprotect(response, dp) ==
    response.status = 409 /\ dp /\ _is_deletion_protected(response)

\* lines 179-184 with _handle_delete_error and the first lines of
\* _retry_delete_after_unprotect
delete_dataset ==
    /\ pc = "returned" /\ caller = "delete_dataset"
    /\ IF Succeeded(ret)
       THEN /\ out' = out
            /\ Finish(ReturnBool(TRUE))
       ELSE IF ~ret.has_response
       THEN /\ out' = out \cup {Msg("FAILED - Error deleting", 0)}
            /\ Finish(ReturnBool(FALSE))
       ELSE IF /\ ret.response.status = 409 /\ disable_protection
               /\ _is_deletion_protected_raises(ret.response)
       THEN /\ out' = out
            /\ Finish(Raise("AttributeError"))
       ELSE IF ShouldUnprotect(ret.response, disable_protection)
       THEN /\ out' = out \cup {Msg("deletion protection detected, disabling", 0)}
            /\ EnterRetry("disable_deletion_protection", "PUT", payload)
            /\ UNCHANGED <<op, disable_protection, http, rets, result>>
       ELSE /\ out' = out \cup {Msg("FAILED - Error deleting", ret.response.status)}
                        \cup ErrorDetail(ret.response)
            /\ Finish(ReturnBool(FALSE))
    /\ UNCHANGED <<self, classifier_vars, cli_vars>>

\* a retry DELETE whose failure is handled like the first DELETE's
_retry_delete_after_unprotect_handling_again ==
    /\ pc = "returned" /\ caller = "_retry_delete_after_unprotect"
    /\ IF Succeeded(ret)
       THEN /\ out' = out \cup {Msg("retrying delete", 0)}
            /\ Finish(ReturnBool(TRUE))
       ELSE IF ret.has_response /\ ShouldUnprotect(ret.response, disable_protection)
       THEN /\ out' = out \cup {Msg("retrying delete", 0)}
            /\ EnterRetry("disable_deletion_protection", "PUT", payload)
            /\ UNCHANGED <<op, disable_protection, http, rets, result>>
       ELSE /\ out' = out \cup {Msg("retrying delete", 0), Msg("FAILED - Error on retry", 0)}
            /\ Finish(ReturnBool(FALSE))
    /\ UNCHANGED <<self, classifier_vars, cli_vars>>

\* lines 229-239
_retry_delete_after_unprotect ==
    /\ pc = "returned" /\ caller = "_retry_delete_after_unprotect"
    /\ IF Succeeded(ret)
       THEN /\ out' = out \cup {Msg("retrying delete", 0)}
            /\ Finish(ReturnBool(TRUE))
       ELSE IF ret.has_response
       THEN /\ out' = out \cup {Msg("retrying delete", 0),
                                Msg("FAILED - Error on retry", ret.response.status)}
            /\ Finish(ReturnBool(FALSE))
       ELSE /\ out' = out \cup {Msg("retrying delete", 0), Msg("FAILED - Error on retry", 0)}
            /\ Finish(ReturnBool(FALSE))
    /\ UNCHANGED <<self, classifier_vars, cli_vars>>

----------------------------------------------------------------------------
(* main.py: the inactivity classifier (is_dataset_inactive, is_column_inactive) *)

MaxDay == 1             \* instants and the clock range over datetime_min..MaxDay (in days)

\* the earliest instant a datetime can hold; arithmetic that leaves the range raises
\* OverflowError
datetime_min == 0

Instants == datetime_min..MaxDay

\* windows: a negative one, none, inside the clock's range, and one reaching before
\* datetime_min from every clock reading
Windows == -1..(MaxDay + 1)

\* values of a timestamp field after response.json()
Missing == [k |-> "missing", t |-> 0, suffix |-> ""]       \* key absent or JSON null
EmptyText == [k |-> "empty", t |-> 0, suffix |-> ""]        \* ""
MalformedText == [k |-> "malformed", t |-> 0, suffix |-> ""]  \* a str that is no ISO date
Number == [k |-> "number", t |-> 0, suffix |-> ""]          \* a non-zero JSON number
\* ISO-8601 text of instant t, ending in "Z", in "+00:00", or without an offset
IsoText(t, suffix) == [k |-> "iso", t |-> t, suffix |-> suffix]

Suffixes == {"Z", "+00:00", ""}

Timestamps == {Missing, EmptyText, MalformedText, Number}
              \cup {IsoText(t, s) : t \in Instants, s \in Suffixes}

Names == {"absent", "a"}

\* a dataset as listed by GET /1/datasets, a column as listed by GET /1/columns/<slug>
Dataset(name, slug, ts) ==
    [name |-> name, slug |-> slug, last_written_at |-> ts,
     key_name |-> "absent", id |-> "absent", last_written |-> Missing]
Column(key_name, id, ts) ==
    [name |-> "absent", slug |-> "absent", last_written_at |-> Missing,
     key_name |-> key_name, id |-> id, last_written |-> ts]

\* dict.get(key, default) on a field that may be absent
get(value, default) == IF value = "absent" THEN default ELSE value

\* "not last_written": None and the empty string are falsy
Falsy(v) == v.k \in {"missing", "empty"}

\* last_written.replace('Z', '+00:00'): only a str has the method
HasReplace(v) == v.k # "number"
replace_Z(v) == IF v.k = "iso" /\ v.suffix = "Z" THEN IsoText(v.t, "+00:00") ELSE v

\* datetime.fromisoformat: ValueError on text that is no ISO date, else the instant
\* with its tzinfo (None for text without an offset)
fromisoformat(v) ==
    IF v.k = "iso" /\ v.suffix # "Z"
    THEN [ok |-> TRUE, t |-> v.t, tzinfo |-> IF v.suffix = "" THEN "none" ELSE "utc"]
    ELSE [ok |-> FALSE, t |-> 0, tzinfo |-> "none"]

\* datetime.now(tz) - timedelta(days=days) stays within the datetime range
InRange(now, d) == now - d >= datetime_min

Verdict(inactive, warned) ==
    [kind |-> "return", inactive |-> inactive, exc |-> "", warned |-> warned]
Raised(x) == [kind |-> "raise", inactive |-> FALSE, exc |-> x, warned |-> "none"]
NoWarning == "none"

ClassifyTimestamp_cutoff_first(last_written, d, now, label) ==
    IF ~InRange(now, d) THEN Raised("OverflowError")
    ELSE IF Falsy(last_written) THEN Verdict(TRUE, NoWarning)
    ELSE IF ~HasReplace(last_written) THEN Raised("AttributeError")
    ELSE LET last_written_dt == fromisoformat(replace_Z(last_written)) IN
         IF ~last_written_dt.ok THEN Verdict(TRUE, label)
         ELSE Verdict(last_written_dt.t < now - d, NoWarning)

\* the body shared by the two classifiers (lines 120-135 and 195-210); label is
\* the name the warning shows
ClassifyTimestamp(last_written, d, now, label) ==
    IF Falsy(last_written) THEN Verdict(TRUE, NoWarning)
    ELSE IF ~HasReplace(last_written) THEN Raised("AttributeError")
    ELSE LET last_written_dt == fromisoformat(replace_Z(last_written)) IN
         IF ~last_written_dt.ok THEN Verdict(TRUE, label)
         ELSE IF ~InRange(now, d) THEN Raised("OverflowError")
         ELSE Verdict(last_written_dt.t < now - d, NoWarning)

is_dataset_inactive_unnamed_first(dataset, d, now) ==
    IF dataset.name = "absent" THEN Verdict(TRUE, NoWarning)
    ELSE ClassifyTimestamp(dataset.last_written_at, d, now, get(dataset.name, "unknown"))

is_dataset_inactive(dataset, d, now) ==
    ClassifyTimestamp(dataset.last_written_at, d, now, get(dataset.name, "unknown"))

is_column_inactive(column, d, now) ==
    ClassifyTimestamp(column.last_written, d, now, get(column.key_name, "unknown"))

DatasetRecords == {Dataset(n, "s", ts) : n \in Names, ts \in Timestamps}
ColumnRecords == {Column(n, "c", ts) : n \in Names, ts \in Timestamps}

RecordAfter_normalised(record) ==
    [record EXCEPT !.last_written_at = replace_Z(@), !.last_written = replace_Z(@)]

\* the record after a classifier call: neither function stores into its argument
RecordAfter(record) == record

\* one classifier call on record i, at clock reading now; the call leaves the record
\* as it found it
Classify(f, i, now) ==
    LET r == records[i]
        v == IF f = "is_dataset_inactive" THEN is_dataset_inactive(r, days, now)
             ELSE is_column_inactive(r, days, now) IN
    /\ verdicts' = Append(verdicts, [f |-> f, now |-> now, verdict |-> v, given |-> r,
                                     left |-> RecordAfter(r)])
    /\ records' = [records EXCEPT ![i] = RecordAfter(r)]
    /\ UNCHANGED days

MaxCalls == 2           \* classifier calls in one run

ClassifyDataset ==
    /\ Len(verdicts) < MaxCalls
    /\ \E i \in DOMAIN records, now \in Instants :
        /\ records[i] \in DatasetRecords
        /\ Classify("is_dataset_inactive", i, now)
    /\ UNCHANGED <<client_vars, cli_vars>>

ClassifyColumn ==
    /\ Len(verdicts) < MaxCalls
    /\ \E i \in DOMAIN records, now \in Instants :
        /\ records[i] \in ColumnRecords
        /\ Classify("is_column_inactive", i, now)
    /\ UNCHANGED <<client_vars, cli_vars>>

----------------------------------------------------------------------------
(* main.py: the client class the command line uses (lines 15-116).  It has no   *)
(* retry layer: every method sends one request.  Its delete_dataset is not a   *)
(* method of the class: the def at lines 137-190 sits inside is_column_inactive *)
(* after its last return.                                                       *)

MaxDatasets == 2        \* datasets in the listing
MaxColumns == 1         \* columns of one dataset

\* what one request of the session can produce, as far as main.py's client tells apart
CliServerBehaviours == {"ok", "http_error", "transport_failure"}

\* methods of main.py's HoneycombClient (lines 18-116)
ClientMethods == {"get_environment_info", "get_columns", "delete_column", "get_datasets",
                  "disable_deletion_protection"}

\* client.<m>(...) resolves to a method of the class, or raises AttributeError
HasMethod(m) == m \in ClientMethods

ReturnList(l) == [kind |-> "return", list |-> l, bool |-> FALSE, exc |-> ""]
ReturnFlag(b) == [kind |-> "return", list |-> <<>>, bool |-> b, exc |-> ""]
CliRaise(x) == [kind |-> "raise", list |-> <<>>, bool |-> FALSE, exc |-> x]
CliExit == [kind |-> "exit", list |-> <<>>, bool |-> FALSE, exc |-> ""]

\* lines 45-59; line 54 reads e.response.status_code, and e.response is None when the
\* transport raised
main_get_columns(srv, listed) ==
    CASE srv = "ok" -> ReturnList(listed)
      [] srv = "http_error" -> ReturnList(<<>>)
      [] srv = "transport_failure" -> CliRaise("AttributeError")

\* lines 61-81; line 71 reads e.response.status_code in the same way
main_delete_column(srv) ==
    CASE srv = "ok" -> ReturnFlag(TRUE)
      [] srv = "http_error" -> ReturnFlag(FALSE)
      [] srv = "transport_failure" -> CliRaise("AttributeError")

\* lines 83-93
main_get_datasets(srv, listed) ==
    IF srv = "ok" THEN ReturnList(listed) ELSE CliExit

----------------------------------------------------------------------------
(* main.py: the command line workflow *)

\* the listings of the CLI runs hold old (written at datetime_min) and recent (written
\* at MaxDay) datasets and columns
CliTimestamps == {IsoText(datetime_min, "Z"), IsoText(MaxDay, "Z")}

\* the clock of the CLI runs reads the latest instant: an old record lies before the
\* cutoff of the window that ends now, a recent one on it
CliNows == {MaxDay}

\* --days of the CLI runs: the window that ends now, and one reaching before
\* datetime_min
CliWindows == {0, MaxDay + 1}

\* the slug of the i-th dataset of the listing, the id of the j-th column of a dataset
Slug(i) == ToString(i)
ColumnId(j) == ToString(j)

\* listings of n datasets: the i-th has slug Slug(i) or none
DatasetLists ==
    UNION {[1..n -> {"a", "b"} \X {TRUE, FALSE} \X CliTimestamps] : n \in 0..MaxDatasets}
DatasetAt(l, i) == Dataset(l[i][1], IF l[i][2] THEN Slug(i) ELSE "absent", l[i][3])
DatasetsOf(l) == [i \in DOMAIN l |-> DatasetAt(l, i)]

\* listings of n columns, the j-th with id ColumnId(j) or none, oldest first
ColumnLists ==
    {l \in UNION {[1..n -> {TRUE, FALSE} \X CliTimestamps] : n \in 0..MaxColumns} :
        \A j \in DOMAIN l : j > 1 => l[j - 1][2].t <= l[j][2].t}
ColumnsOf(l) ==
    [j \in DOMAIN l |-> Column("k", IF l[j][1] THEN ColumnId(j) ELSE "absent", l[j][2])]

\* the flags of a run; --delete-protected is only handed to the delete_dataset call
\* (line 464), whose lookup fails before the flag is read, and is left unset
Arguments ==
    [delete : BOOLEAN, delete_protected : {FALSE}, name : {{}, {"a"}},
     check_columns : BOOLEAN, delete_columns : BOOLEAN]

Empty_never(v) == FALSE

\* dataset.get("slug", "") and column.get("id", "") with the "if not" test after them
Empty(v) == v = "absent"

NotListed_ignoring_names(dataset, a) == FALSE

\* line 360: args.name and dataset_name not in args.name
NotListed(dataset, a) == a.name # {} /\ get(dataset.name, "") \notin a.name

\* lines 351-370
categorize_datasets(listed, a, d, now) ==
    LET considered == SelectSeq(listed, LAMBDA ds : ~NotListed(ds, a))
        raised == {i \in DOMAIN considered :
                     is_dataset_inactive(considered[i], d, now).kind = "raise"} IN
    [raised |-> raised # {},
     active |-> SelectSeq(considered,
                          LAMBDA ds : ~is_dataset_inactive(ds, d, now).inactive),
     inactive |-> SelectSeq(considered,
                            LAMBDA ds : is_dataset_inactive(ds, d, now).inactive),
     filtered_out |-> SelectSeq(listed, LAMBDA ds : NotListed(ds, a))]

\* a client call of the run; raised names the exception that left the call, got the
\* list get_columns returned
ClientCall(m, slug, id, x) ==
    [m |-> m, slug |-> slug, id |-> id, raised |-> x, got |-> <<>>]

Line(text, n, of) == [msg |-> text, n |-> n, of |-> of]

RECURSIVE total_inactive_columns(_)
total_inactive_columns(results) ==
    IF results = <<>> THEN 0
    ELSE Len(results[1].inactive_columns) + total_inactive_columns(Tail(results))

\* the (dataset_slug, column) pairs delete_columns' two loops visit, in order
RECURSIVE ColumnsToDelete(_)
ColumnsToDelete(results) ==
    IF results = <<>> THEN <<>>
    ELSE [j \in DOMAIN results[1].inactive_columns |->
            [dataset_slug |-> results[1].dataset_slug,
             column |-> results[1].inactive_columns[j]]]
         \o ColumnsToDelete(Tail(results))

\* lines 510-514: dataset deletion comes last
DatasetsPhase(a, inactive) ==
    IF a.delete /\ inactive # <<>> THEN "delete_datasets" ELSE "done"

\* lines 402-405
AfterColumnCheck(a, results, inactive) ==
    IF total_inactive_columns(results) > 0 /\ a.delete_columns THEN "delete_columns"
    ELSE DatasetsPhase(a, inactive)

\* lines 506-508
ColumnsPhase(a, active, inactive) ==
    IF ~a.check_columns THEN DatasetsPhase(a, inactive)
    ELSE IF active # <<>> THEN "check_columns"
    ELSE AfterColumnCheck(a, <<>>, inactive)

Crash(x) ==
    /\ cli_pc' = "crashed"
    /\ exit_status' = [kind |-> "exception", exc |-> x, code |-> 1]

Running == [kind |-> "running", exc |-> "", code |-> 0]
Ended == [kind |-> "ended", exc |-> "", code |-> 0]

\* moving on to position p of main(); main returns when nothing is left to do
Goto(p) ==
    /\ cli_pc' = p
    /\ exit_status' = IF p = "done" THEN Ended ELSE exit_status

\* lines 475-476: the first request of a run; either outcome lets main go on
main_get_environment_info ==
    /\ cli_pc = "get_environment_info"
    /\ calls' = Append(calls, ClientCall("get_environment_info", "", "", "none"))
    /\ cli_pc' = "get_datasets"
    /\ UNCHANGED <<args, days, active_datasets, inactive_datasets, filtered_out_datasets,
                   datasets_with_inactive_columns, cursor, answers, deleted, cli_out,
                   exit_status>>
    /\ UNCHANGED <<client_vars, records, verdicts>>

\* lines 486-504: get_datasets, categorize_datasets and the tables
main_categorize ==
    /\ cli_pc = "get_datasets"
    /\ calls' = Append(calls, ClientCall("get_datasets", "", "", "none"))
    /\ \E srv \in CliServerBehaviours, l \in DatasetLists, now \in CliNows :
        LET r == main_get_datasets(srv, DatasetsOf(l))
            c == categorize_datasets(r.list, args, days, now) IN
        IF r.kind = "exit"
        THEN /\ cli_pc' = "exited"
             /\ exit_status' = [kind |-> "exit", exc |-> "", code |-> 1]
             /\ UNCHANGED <<active_datasets, inactive_datasets, filtered_out_datasets>>
        ELSE IF c.raised
        THEN /\ Crash("OverflowError")
             /\ UNCHANGED <<active_datasets, inactive_datasets, filtered_out_datasets>>
        ELSE /\ active_datasets' = c.active
             /\ inactive_datasets' = c.inactive
             /\ filtered_out_datasets' = c.filtered_out
             /\ Goto(ColumnsPhase(args, c.active, c.inactive))
    /\ cursor' = 1
    /\ UNCHANGED <<args, days, datasets_with_inactive_columns, answers, deleted, cli_out>>
    /\ UNCHANGED <<client_vars, records, verdicts>>

\* a column check that reports every column it was given
ColumnCheck_keeping_all(dataset, columns, d, now) ==
    [inactive_columns |-> columns,
     dataset_name |-> get(dataset.name, "Unknown"),
     dataset_slug |-> dataset.slug]

\* lines 296-324, for a dataset with a slug and the columns the server listed
ColumnCheck(dataset, columns, d, now) ==
    [inactive_columns |-> SelectSeq(columns,
                                    LAMBDA c : is_column_inactive(c, d, now).inactive),
     dataset_name |-> get(dataset.name, "Unknown"),
     dataset_slug |-> dataset.slug]

\* one iteration of process_column_cleanup's loop (lines 381-398), and lines 400-405
\* after the last one
check_columns_for_dataset ==
    /\ cli_pc = "check_columns"
    /\ cursor <= Len(active_datasets)
    /\ LET dataset == active_datasets[cursor]
           more == cursor < Len(active_datasets) IN
       IF Empty(dataset.slug)
       THEN /\ cli_out' = cli_out \cup {Line("Skipping: no slug found", cursor, 0)}
            /\ Goto(IF more THEN "check_columns"
                    ELSE AfterColumnCheck(args, datasets_with_inactive_columns,
                                          inactive_datasets))
            /\ UNCHANGED <<calls, datasets_with_inactive_columns>>
       ELSE \E srv \in CliServerBehaviours, l \in ColumnLists, now \in CliNows :
            LET r == main_get_columns(srv, ColumnsOf(l))
                raised == \E j \in DOMAIN r.list :
                            is_column_inactive(r.list[j], days, now).kind = "raise"
                checked == ColumnCheck(dataset, r.list, days, now)
                results == IF Len(checked.inactive_columns) > 0
                           THEN Append(datasets_with_inactive_columns, checked)
                           ELSE datasets_with_inactive_columns IN
            /\ cli_out' = cli_out
            /\ IF r.kind = "raise"
               THEN /\ calls' = Append(calls,
                                  ClientCall("get_columns", dataset.slug, "", r.exc))
                    /\ Crash(r.exc)
                    /\ UNCHANGED datasets_with_inactive_columns
               ELSE /\ calls' = Append(calls,
                                  [ClientCall("get_columns", dataset.slug, "", "none")
                                      EXCEPT !.got = r.list])
                    /\ IF raised
                       THEN /\ Crash("OverflowError")
                            /\ UNCHANGED datasets_with_inactive_columns
                       ELSE /\ datasets_with_inactive_columns' = results
                            /\ Goto(IF more THEN "check_columns"
                                    ELSE AfterColumnCheck(args, results,
                                                          inactive_datasets))
    /\ cursor' = IF cursor < Len(active_datasets) THEN cursor + 1 ELSE 1
    /\ UNCHANGED <<args, days, active_datasets, inactive_datasets, filtered_out_datasets,
                   answers, deleted>>
    /\ UNCHANGED <<client_vars, records, verdicts>>

Choices == {"yes I do", "no"}

Aborts_never(answer) == FALSE

\* lines 413 and 447: the prompt's answer that ends the function
Aborts(answer) == answer = "no"

\* lines 408-418: the warning, the prompt, and the return on "no"
delete_columns ==
    /\ cli_pc = "delete_columns"
    /\ \E answer \in Choices :
        /\ answers' = [answers EXCEPT !.columns = answer]
        /\ IF Aborts(answer)
           THEN /\ cli_out' = cli_out \cup {Line("Column deletion aborted.", 0, 0)}
                /\ Goto(DatasetsPhase(args, inactive_datasets))
           ELSE /\ cli_out' = cli_out
                /\ Goto("delete_column")
    /\ cursor' = 1
    /\ UNCHANGED <<args, days, active_datasets, inactive_datasets, filtered_out_datasets,
                   datasets_with_inactive_columns, calls, deleted>>
    /\ UNCHANGED <<client_vars, records, verdicts>>

\* one iteration of delete_columns' inner loop (lines 425-437), and line 439 after the
\* last one
delete_column_item ==
    /\ cli_pc = "delete_column"
    /\ LET items == ColumnsToDelete(datasets_with_inactive_columns)
           item == items[cursor]
           more == cursor < Len(items)
           summary(n) == Line("Deleted out of columns", n,
                              total_inactive_columns(datasets_with_inactive_columns)) IN
       /\ cursor <= Len(items)
       /\ IF Empty(item.column.id)
          THEN /\ cli_out' = cli_out \cup {Line("Skipping: no ID found", cursor, 0)}
                               \cup IF more THEN {} ELSE {summary(deleted.columns)}
               /\ Goto(IF more THEN "delete_column"
                       ELSE DatasetsPhase(args, inactive_datasets))
               /\ UNCHANGED <<calls, deleted>>
          ELSE \E srv \in CliServerBehaviours :
               LET r == main_delete_column(srv)
                   n == IF r.bool THEN deleted.columns + 1 ELSE deleted.columns IN
               /\ calls' = Append(calls, ClientCall("delete_column", item.dataset_slug,
                                                    item.column.id, r.exc))
               /\ IF r.kind = "raise"
                  THEN /\ Crash(r.exc)
                       /\ UNCHANGED <<deleted, cli_out>>
                  ELSE /\ deleted' = [deleted EXCEPT !.columns = n]
                       /\ cli_out' = cli_out \cup IF more THEN {} ELSE {summary(n)}
                       /\ Goto(IF more THEN "delete_column"
                               ELSE DatasetsPhase(args, inactive_datasets))
       /\ cursor' = IF more THEN cursor + 1 ELSE 1
    /\ UNCHANGED <<args, days, active_datasets, inactive_datasets, filtered_out_datasets,
                   datasets_with_inactive_columns, answers>>
    /\ UNCHANGED <<client_vars, records, verdicts>>

\* lines 442-452: the warning, the prompt, and the return on "no"
delete_datasets ==
    /\ cli_pc = "delete_datasets"
    /\ \E answer \in Choices :
        /\ answers' = [answers EXCEPT !.datasets = answer]
        /\ IF Aborts(answer)
           THEN /\ cli_out' = cli_out \cup {Line("Dataset deletion aborted.", 0, 0)}
                /\ Goto("done")
           ELSE /\ cli_out' = cli_out
                /\ Goto("delete_dataset")
    /\ cursor' = 1
    /\ UNCHANGED <<args, days, active_datasets, inactive_datasets, filtered_out_datasets,
                   datasets_with_inactive_columns, calls, deleted>>
    /\ UNCHANGED <<client_vars, records, verdicts>>

\* one iteration of delete_datasets' loop (lines 454-466), and line 468 after the last
\* one.  client.delete_dataset is looked up on main.py's class.
delete_dataset_item ==
    /\ cli_pc = "delete_dataset"
    /\ cursor <= Len(inactive_datasets)
    /\ LET dataset == inactive_datasets[cursor]
           more == cursor < Len(inactive_datasets)
           summary(n) == Line("Deleted out of datasets", n, Len(inactive_datasets)) IN
       IF Empty(dataset.slug)
       THEN /\ cli_out' = cli_out \cup {Line("Skipping: no slug found", cursor, 0)}
                            \cup IF more THEN {} ELSE {summary(deleted.datasets)}
            /\ Goto(IF more THEN "delete_dataset" ELSE "done")
            /\ UNCHANGED <<calls, deleted>>
       ELSE IF ~HasMethod("delete_dataset")
       THEN /\ calls' = Append(calls, ClientCall("delete_dataset", dataset.slug, "",
                                                 "AttributeError"))
            /\ Crash("AttributeError")
            /\ UNCHANGED <<deleted, cli_out>>
       ELSE \E ok \in BOOLEAN :
            LET n == IF ok THEN deleted.datasets + 1 ELSE deleted.datasets IN
            /\ calls' = Append(calls, ClientCall("delete_dataset", dataset.slug, "",
                                                 "none"))
            /\ deleted' = [deleted EXCEPT !.datasets = n]
            /\ cli_out' = cli_out \cup IF more THEN {} ELSE {summary(n)}
            /\ Goto(IF more THEN "delete_dataset" ELSE "done")
    /\ cursor' = IF cursor < Len(inactive_datasets) THEN cursor + 1 ELSE 1
    /\ UNCHANGED <<args, days, active_datasets, inactive_datasets, filtered_out_datasets,
                   datasets_with_inactive_columns, answers>>
    /\ UNCHANGED <<client_vars, records, verdicts>>

----------------------------------------------------------------------------
(* Specifications: the client on its own, the classifier on its own, a CLI run *)

\* the client constructed with api_key, before its first call
Constructed(api_key) ==
    /\ self = Client(api_key)
    /\ op = "none"
    /\ disable_protection = FALSE
    /\ caller = "none"
    /\ pc = "idle"
    /\ attempt = 0
    /\ method = ""
    /\ kwargs = "none"
    /\ log = <<>>
    /\ http = <<>>
    /\ rets = <<>>
    /\ rate_limit = NoRateLimit
    /\ ret = NoRet
    /\ out = {}
    /\ result = NoResult

NoArguments == [delete |-> FALSE, delete_protected |-> FALSE, name |-> {},
                check_columns |-> FALSE, delete_columns |-> FALSE]

ClassifierIdle ==
    /\ records = <<>>
    /\ days = 0
    /\ verdicts = <<>>

CliIdle ==
    /\ args = NoArguments
    /\ cli_pc = "off"
    /\ active_datasets = <<>>
    /\ inactive_datasets = <<>>
    /\ filtered_out_datasets = <<>>
    /\ datasets_with_inactive_columns = <<>>
    /\ cursor = 1
    /\ answers = [columns |-> "unasked", datasets |-> "unasked"]
    /\ calls = <<>>
    /\ deleted = [columns |-> 0, datasets |-> 0]
    /\ cli_out = {}
    /\ exit_status = Running

\* in the runs of main.py the client of client.py is not used
ClientIdle == Constructed("")

Init == (\E api_key \in ApiKeys : Constructed(api_key)) /\ ClassifierIdle /\ CliIdle

Next ==
    \/ Call
    \/ _make_request_with_retry
    \/ get_environment_info
    \/ get_columns
    \/ delete_column
    \/ get_datasets
    \/ disable_deletion_protection
    \/ delete_dataset
    \/ _retry_delete_after_unprotect

Spec == Init /\ [][Next]_vars

\* the classifier is handed two records of the listing, under some window
ClassifierInit ==
    /\ ClientIdle /\ CliIdle
    /\ records \in [1..2 -> DatasetRecords \cup ColumnRecords]
    /\ days \in Windows
    /\ verdicts = <<>>

ClassifierNext ==
    \/ ClassifyDataset
    \/ ClassifyColumn

SpecClassifier == ClassifierInit /\ [][ClassifierNext]_vars

\* a run of main() with the arguments parse_arguments() returned
CliInit ==
    /\ ClientIdle
    /\ records = <<>> /\ verdicts = <<>>
    /\ days \in CliWindows
    /\ args \in Arguments
    /\ cli_pc = "get_environment_info"
    /\ active_datasets = <<>>
    /\ inactive_datasets = <<>>
    /\ filtered_out_datasets = <<>>
    /\ datasets_with_inactive_columns = <<>>
    /\ cursor = 1
    /\ answers = [columns |-> "unasked", datasets |-> "unasked"]
    /\ calls = <<>>
    /\ deleted = [columns |-> 0, datasets |-> 0]
    /\ cli_out = {}
    /\ exit_status = Running

CliNext ==
    \/ main_get_environment_info
    \/ main_categorize
    \/ check_columns_for_dataset
    \/ delete_columns
    \/ delete_column_item
    \/ delete_datasets
    \/ delete_dataset_item

SpecCli == CliInit /\ [][CliNext]_vars

----------------------------------------------------------------------------
(* Properties of the retry layer *)

Requests(l) == {i \in DOMAIN l : l[i].e = "request"}
Waits(l) == {i \in DOMAIN l : l[i].e \in {"rate_limit_wait", "transport_wait"}}

\* C1: one invocation of _make_request_with_retry issues at most 3 HTTP requests,
\* whatever mix of 429 responses, other responses and transport failures the server
\* produces; 429s and transport failures share one attempt counter: the attempt
\* number of a request is the number of waits (of either kind) before it.
C1_AtMostThreeRequests ==
    /\ Cardinality(Requests(log)) <= 3
    /\ \A i \in Requests(log) :
        log[i].a = Cardinality({j \in Waits(log) : j < i})

C1_Witness ==
    /\ pc = "returned"
    /\ Cardinality(Requests(log)) = 3
    /\ \E i, j \in Waits(log) :
        log[i].e = "rate_limit_wait" /\ log[j].e = "transport_wait"

\* C2: a 429 received on attempt 1 or 2 is followed by a Retry-After wait and then
\* another request (the loop is still running when the wait is the last event); a
\* 429 received on attempt 3 is the last event, with no wait, and is what the retry
\* layer hands to the calling operation.
C2_RateLimitRetried ==
    \A i \in Requests(log) :
        log[i].got = 429 =>
            IF log[i].a < 2
            THEN /\ i < Len(log)
                 /\ log[i + 1].e = "rate_limit_wait"
                 /\ IF i + 1 = Len(log)
                    THEN pc = "retry" /\ attempt = log[i].a + 1
                    ELSE /\ log[i + 2].e = "request"
                         /\ log[i + 2].a = log[i].a + 1
                         /\ log[i + 2].m = log[i].m
            ELSE /\ i = Len(log)
                 /\ pc # "retry"
                 /\ ret.kind = "response"
                 /\ ret.response.status = 429

C2_Witness ==
    /\ pc = "returned"
    /\ Len(log) = 5
    /\ log[1].got = 429 /\ log[2].e = "rate_limit_wait"
    /\ log[5].got = 429 /\ log[5].a = 2

\* C3: a transport failure on attempt 1 or 2 is followed by a wait of exactly 1
\* second and then another request; a transport failure on attempt 3 is the last
\* event, with no wait, and is re-raised to the calling operation.
C3_TransportRetried ==
    \A i \in Requests(log) :
        log[i].got = 0 =>
            IF log[i].a < 2
            THEN /\ i < Len(log)
                 /\ log[i + 1].e = "transport_wait"
                 /\ log[i + 1].secs = 1
                 /\ IF i + 1 = Len(log)
                    THEN pc = "retry" /\ attempt = log[i].a + 1
                    ELSE /\ log[i + 2].e = "request"
                         /\ log[i + 2].a = log[i].a + 1
                         /\ log[i + 2].m = log[i].m
            ELSE /\ i = Len(log)
                 /\ pc # "retry"
                 /\ ret.kind = "exception"

C3_Witness ==
    /\ pc = "returned"
    /\ Len(log) = 5
    /\ log[1].got = 0 /\ log[2].e = "transport_wait"
    /\ log[5].got = 0 /\ log[5].a = 2
    /\ ret.kind = "exception"

\* C4: a response whose status is not 429 ends the invocation at once: it is the
\* last event (no wait, no further request), it is what the retry layer returns,
\* and when it answers the first attempt exactly one request was issued.
C4_OtherResponseReturnedAtOnce ==
    \A i \in Requests(log) :
        log[i].got \notin {0, 429} =>
            /\ i = Len(log)
            /\ pc # "retry"
            /\ ret.kind = "response"
            /\ ret.response.status = log[i].got
            /\ (log[i].a = 0 => Len(log) = 1)

C4_Witness ==
    /\ pc = "returned"
    /\ Len(log) = 1
    /\ log[1].got = 500
    /\ ret.response.status = 500

----------------------------------------------------------------------------
(* Properties of the operations *)

\* the retry layer's last outcome is a request failure: a surfaced transport failure
\* or a response with an error status
RequestFailed == ret.kind = "exception" \/ (ret.kind = "response" /\ ret.response.status >= 400)

\* C5: whatever the server does, get_environment_info, get_columns, delete_column,
\* disable_deletion_protection and delete_dataset turn a request failure into a
\* returned value; none of them raises.
C5_FailuresNeverEscape ==
    (/\ op \in {"get_environment_info", "get_columns", "delete_column",
                "disable_deletion_protection", "delete_dataset"}
     /\ pc = "done"
     /\ RequestFailed)
    => result.kind = "return"

\* C6: get_columns returns the server's column list on success and an empty
\* sequence on every failure, a transport failure on all 3 attempts included.
C6_GetColumnsResult ==
    (op = "get_columns" /\ pc = "done") =>
        /\ RequestFailed => result = ReturnData(JsonList(0))
        /\ (~RequestFailed /\ ret.response.json.t = "list")
              => result = ReturnData(ret.response.json)

\* C7: get_datasets returns the dataset list on success, and on every unrecoverable
\* failure (transport failure on all 3 attempts, or a final response with an error
\* status, a third-attempt 429 included) ends the process with a non-zero exit
\* status instead of returning a value.
C7_GetDatasetsExitsOnFailure ==
    (op = "get_datasets" /\ pc \notin {"retry", "returned"}) =>
        /\ RequestFailed =>
              (pc = "exited" /\ result.kind = "exit" /\ result.code # 0)
        /\ (~RequestFailed /\ ret.response.json.t = "list") =>
              (pc = "done" /\ result = ReturnData(ret.response.json))

C7_Witness ==
    /\ op = "get_datasets"
    /\ pc = "exited"
    /\ Cardinality(Requests(log)) = 3
    /\ ret.kind = "exception"

IdentifiedProtected(o) == o.text_prot \/ (o.json_t = "obj" /\ o.error = "prot")

ProtectedConflict(o) == o.kind = "response" /\ o.status = 409 /\ IdentifiedProtected(o)

OutcomeOk(o) == o.kind = "response" /\ o.status \in 200..299

ClearProtection == "settings.delete_protected=false"

\* C8: delete_dataset with disable_protection set whose DELETE ends in a 409
\* identified as delete protected issues a PUT clearing the protection flag before
\* it finishes, and after a successful PUT a second DELETE; requests go out in the
\* order DELETE, PUT, DELETE; when the PUT and the second DELETE both succeed the
\* result is true.
C8_UnprotectThenRetry ==
    (/\ op = "delete_dataset" /\ disable_protection
     /\ Len(rets) >= 1 /\ ProtectedConflict(rets[1]))
    =>
        /\ pc = "done" => Len(rets) >= 2
        /\ Len(rets) >= 2 => rets[2].m = "PUT"
        /\ \A i \in DOMAIN http :
              /\ http[i].m = "PUT" => http[i].json = ClearProtection
              /\ \A j \in DOMAIN http :
                    (i < j /\ http[i].m = "PUT" /\ http[j].m = "DELETE")
                        => \A k \in DOMAIN http : k > j => http[k].m = "DELETE"
        /\ http[1].m = "DELETE"
        /\ (Len(rets) >= 2 /\ OutcomeOk(rets[2])) =>
              /\ pc = "done" => Len(rets) = 3
              /\ Len(rets) >= 3 => rets[3].m = "DELETE"
              /\ (pc = "done" /\ OutcomeOk(rets[3])) => result = ReturnBool(TRUE)

C8_Witness ==
    /\ op = "delete_dataset" /\ disable_protection
    /\ pc = "done"
    /\ Len(rets) = 3
    /\ ProtectedConflict(rets[1]) /\ OutcomeOk(rets[2]) /\ OutcomeOk(rets[3])
    /\ result = ReturnBool(TRUE)

\* C9: within delete_dataset a retry DELETE (a DELETE that opens a new round of
\* attempts after the first) is sent only after the protection-disabling PUT has
\* completed successfully; when that PUT fails, by error status or transport
\* failure, the PUT is the last request and the result is false.
C9_RetryOnlyAfterUnprotect ==
    op = "delete_dataset" =>
        /\ \A j \in DOMAIN http :
              (j > 1 /\ http[j].m = "DELETE" /\ http[j].a = 0) =>
                  /\ http[j - 1].m = "PUT"
                  /\ Len(rets) >= 2 /\ rets[2].m = "PUT" /\ OutcomeOk(rets[2])
        /\ (Len(rets) >= 2 /\ rets[2].m = "PUT" /\ ~OutcomeOk(rets[2])) =>
              /\ Len(rets) = 2
              /\ http[Len(http)].m = "PUT"
              /\ pc \in {"returned", "done"}
              /\ pc = "done" => result = ReturnBool(FALSE)

C9_Witness ==
    /\ op = "delete_dataset"
    /\ pc = "done"
    /\ Len(rets) = 2 /\ rets[2].m = "PUT" /\ rets[2].kind = "exception"
    /\ result = ReturnBool(FALSE)

\* C10: delete_dataset sends a PUT only when the failed DELETE's status is 409, the
\* response is identified as delete protected and disable_protection is true; in
\* every other failure case the first round of DELETE attempts is all it sends, it
\* prints the original error and the result is false.
C10_UnprotectOnlyWhenAllThree ==
    op = "delete_dataset" =>
        /\ (\E i \in DOMAIN http : http[i].m = "PUT") =>
              (Len(rets) >= 1 /\ ProtectedConflict(rets[1]) /\ disable_protection)
        /\ (/\ Len(rets) >= 1 /\ ~OutcomeOk(rets[1])
            /\ ~(ProtectedConflict(rets[1]) /\ disable_protection)
            /\ pc # "returned") =>
              /\ pc = "done"
              /\ result = ReturnBool(FALSE)
              /\ Len(rets) = 1
              /\ \A i \in DOMAIN http : http[i].m = "DELETE" /\ (i > 1 => http[i].a > 0)
              /\ Msg("FAILED - Error deleting", rets[1].status) \in out

C10_Witness ==
    /\ op = "delete_dataset" /\ ~disable_protection
    /\ pc = "done"
    /\ Len(rets) = 1 /\ ProtectedConflict(rets[1])
    /\ result = ReturnBool(FALSE)

\* the requests that open a round of attempts (a retry-layer invocation)
Rounds(h) == {i \in DOMAIN h : h[i].a = 0}

\* C11: after a successful protection disable the delete is retried exactly once:
\* delete_dataset makes at most three rounds of attempts (DELETE, PUT, DELETE), at
\* most one of them a PUT round; when the retry DELETE fails, also with another 409
\* identified as delete protected, nothing more is sent and the result is false.
C11_RetryExactlyOnce ==
    op = "delete_dataset" =>
        /\ Cardinality(Rounds(http)) <= 3
        /\ Cardinality({i \in Rounds(http) : http[i].m = "PUT"}) <= 1
        /\ Cardinality({i \in Rounds(http) : http[i].m = "DELETE"}) <= 2
        /\ Len(rets) <= 3
        /\ (Len(rets) >= 2 /\ OutcomeOk(rets[2]) /\ pc = "done") =>
              Cardinality({i \in Rounds(http) : http[i].m = "DELETE"}) = 2
        /\ (Len(rets) = 3 /\ ~OutcomeOk(rets[3]) /\ pc # "returned") =>
              /\ pc = "done"
              /\ result = ReturnBool(FALSE)
              /\ http[Len(http)].m = "DELETE"

C11_Witness ==
    /\ op = "delete_dataset" /\ disable_protection
    /\ pc = "done"
    /\ Len(rets) = 3
    /\ OutcomeOk(rets[2])
    /\ ProtectedConflict(rets[3])
    /\ result = ReturnBool(FALSE)

\* the result of delete_dataset as a function of what its rounds of attempts ended in
DeleteResultOf(dp, finals) ==
    IF OutcomeOk(finals[1]) THEN TRUE
    ELSE IF ~(ProtectedConflict(finals[1]) /\ dp) THEN FALSE
    ELSE IF ~OutcomeOk(finals[2]) THEN FALSE
    ELSE OutcomeOk(finals[3])

\* the result of an operation as a function of the final response alone (for
\* delete_dataset: of the final response of each round), the number of 429s and
\* waits before that response playing no part
ResultOf(o, dp, r, finals) ==
    LET ok == r.status \in 200..299 IN
    CASE o = "get_columns" ->
            IF ok THEN ReturnData(r.json) ELSE ReturnData(JsonList(0))
      [] o = "get_datasets" ->
            IF ok THEN ReturnData(r.json) ELSE Exit(1)
      [] o = "get_environment_info" ->
            IF ok
            THEN ReturnData(JsonObj("absent",
                    IF r.json.environment = "absent" THEN "default" ELSE r.json.environment,
                    IF r.json.team = "absent" THEN "default" ELSE r.json.team))
            ELSE ReturnData(JsonObj("absent", "default", "default"))
      [] o \in {"delete_column", "disable_deletion_protection"} -> ReturnBool(ok)
      [] o = "delete_dataset" ->
            IF /\ finals[1].status = 409 /\ dp /\ ~finals[1].text_prot
               /\ finals[1].json_t = "obj" /\ finals[1].error = "nonstring"
            THEN Raise("AttributeError")
            ELSE ReturnBool(DeleteResultOf(dp, finals))

\* the body is one the operation is written for: a list for the two listings, an
\* object for the environment info, anything for an error or a boolean operation
ExpectedBody(o, r) ==
    \/ r.status >= 400
    \/ o \in {"delete_column", "disable_deletion_protection", "delete_dataset"}
    \/ o \in {"get_columns", "get_datasets"} /\ r.json.t = "list"
    \/ o = "get_environment_info" /\ r.json.t = "obj"

\* C12: a 429 reaches an operation's status handling only as the answer to the
\* third attempt; otherwise the retry layer hands over the response R it received
\* last, and the operation's result is the one R alone determines, the same after
\* one or two 429s as when R answers the first attempt.
C12_RateLimitAbsorbed ==
    /\ (pc \in {"returned", "done", "exited"} /\ ret.kind = "response") =>
          /\ ret \in ServerBehaviours
          /\ log[Len(log)].e = "request"
          /\ log[Len(log)].got = ret.response.status
          /\ ret.response.status = 429 => log[Len(log)].a = 2
    /\ (/\ pc \in {"done", "exited"}
        /\ \A i \in DOMAIN rets : rets[i].kind = "response"
        /\ ExpectedBody(op, ret.response)) =>
          result = ResultOf(op, disable_protection, ret.response, rets)

C12_Witness ==
    /\ pc = "done"
    /\ op = "get_columns"
    /\ Len(log) = 5
    /\ log[1].got = 429 /\ log[3].got = 429 /\ log[5].got = 200
    /\ result = ReturnData(JsonList(1))

----------------------------------------------------------------------------
(* Properties of the backoff wait *)

\* C13: when the 429 carries a Retry-After header that is the decimal text of a
\* non-negative integer n, _handle_rate_limit waits exactly n seconds; for n = 0 it
\* neither sleeps nor prints.
C13_IntegerRetryAfter ==
    rate_limit.called =>
        \A n \in 0..(10 * MaxRetryAfter) :
            rate_limit.retry_after = TextHeader(DecimalText(n)) =>
                /\ rate_limit.secs = n
                /\ n = 0 => rate_limit.msgs = {}

C13_Witness ==
    /\ rate_limit.called
    /\ rate_limit.retry_after = TextHeader(DecimalText(10 * MaxRetryAfter))
    /\ rate_limit.secs = 10 * MaxRetryAfter
    /\ pc = "retry"

\* C14: when the header is a well-formed HTTP-date naming instant t, the wait is
\* t - now when t is in the future and 0, never a negative number, when it is not.
C14_DateRetryAfter ==
    (rate_limit.called /\ rate_limit.retry_after.k = "httpdate") =>
        /\ rate_limit.secs >= 0
        /\ rate_limit.retry_after.t > rate_limit.now =>
              rate_limit.secs = rate_limit.retry_after.t - rate_limit.now
        /\ rate_limit.retry_after.t <= rate_limit.now => rate_limit.secs = 0

C14_Witness ==
    /\ rate_limit.called
    /\ rate_limit.retry_after.k = "httpdate"
    /\ rate_limit.retry_after.t > rate_limit.now
    /\ rate_limit.secs > 0
    /\ pc = "retry"

\* a header text that is neither empty nor made of decimal digits only
Malformed(h) ==
    /\ h.k = "text"
    /\ h.chars # <<>>
    /\ \E i \in DOMAIN h.chars :
          h.chars[i] \notin {"0", "1", "2", "3", "4", "5", "6", "7", "8", "9"}

\* C15: when the header is neither an integer string nor a parseable HTTP-date the
\* wait is exactly 60 seconds, the parse error is printed, and the loop goes on: no
\* exception leaves the retry layer and the next attempt is due.
C15_MalformedRetryAfter ==
    (rate_limit.called /\ Malformed(rate_limit.retry_after)) =>
        /\ rate_limit.secs = 60
        /\ "Error parsing Retry-After header" \in rate_limit.msgs
        /\ log[Len(log)].e = "rate_limit_wait" =>
              (pc = "retry" /\ attempt = log[Len(log)].a + 1 /\ attempt < 3)
        /\ pc = "retry" \/ Cardinality(Requests(log)) >= 2

C15_Witness ==
    /\ rate_limit.called
    /\ rate_limit.retry_after = TextHeader(<<"-", "1">>)
    /\ rate_limit.secs = 60
    /\ pc = "retry"
    /\ log[Len(log)].e = "rate_limit_wait"

\* C16: when the 429 has no Retry-After header, or an empty one, the wait is a
\* fixed 60 seconds.
C16_MissingRetryAfter ==
    (/\ rate_limit.called
     /\ \/ rate_limit.retry_after.k = "absent"
        \/ rate_limit.retry_after.k = "text" /\ rate_limit.retry_after.chars = <<>>)
    => rate_limit.secs = 60

C16_Witness ==
    /\ rate_limit.called
    /\ rate_limit.retry_after.k = "absent"
    /\ rate_limit.secs = 60
    /\ pc = "retry"

----------------------------------------------------------------------------
(* Properties of the single-request operations *)

PermissionHint == Msg("API key may lack permission", 0)
GenericColumnsError == Msg("Error fetching columns", 0)

\* C17: get_columns that ends with a 401 returns an empty sequence and prints the
\* permission hint, not the generic error line; every other failure prints the
\* generic error line and never the hint.
C17_PermissionHintOn401Only ==
    (op = "get_columns" /\ pc = "done" /\ RequestFailed) =>
        IF ret.kind = "response" /\ ret.response.status = 401
        THEN /\ result = ReturnData(JsonList(0))
             /\ PermissionHint \in out
             /\ GenericColumnsError \notin out
        ELSE /\ GenericColumnsError \in out
             /\ PermissionHint \notin out

UnknownInfo == "default"

C20_DisableProtectionPut ==
    op = "disable_deletion_protection" =>
        /\ \A i \in DOMAIN http : http[i].m = "PUT" /\ http[i].json = ClearProtection
        /\ pc = "done" =>
              /\ Len(http) >= 1
              /\ result = ReturnBool(ret.kind = "response"
                                     /\ ret.response.status \in 200..299)

C20_Witness ==
    /\ op = "disable_deletion_protection" /\ pc = "done"
    /\ Len(http) = 1
    /\ result = ReturnBool(TRUE)

----------------------------------------------------------------------------
(* Properties of the inactivity classifier *)

\* the timestamp field the classifier call reads
Read(v) == IF v.f = "is_dataset_inactive" THEN v.given.last_written_at
           ELSE v.given.last_written

\* the name the call's warning is to show
Shown(v) == IF v.f = "is_dataset_inactive" THEN get(v.given.name, "unknown")
            ELSE get(v.given.key_name, "unknown")

Calls == {verdicts[n] : n \in DOMAIN verdicts}

\* C21: for every record whose timestamp parses as T and every window days = D, the
\* classifier returns, and returns inactive iff T < now - D days; at T = now - D days
\* the record is active.
C21_InactiveIffBeforeCutoff ==
    \A v \in Calls :
        Read(v).k = "iso" =>
            /\ v.verdict.kind = "return"
            /\ v.verdict.inactive <=> (Read(v).t < v.now - days)

\* C22: a record whose timestamp field is absent or empty is classified inactive,
\* whatever the window, windows reaching before the datetime range included.
C22_MissingIsInactive ==
    \A v \in Calls :
        Read(v).k \in {"missing", "empty"} =>
            v.verdict.kind = "return" /\ v.verdict.inactive

C22_Witness ==
    /\ \E v \in Calls : Read(v).k = "missing" /\ ~InRange(v.now, days)
    /\ \E v \in Calls : Read(v).k = "empty"

\* C23: a record whose timestamp is present but cannot be parsed never makes the
\* classifier fail: the call prints a warning naming the resource and returns
\* inactive, whatever the window.
C23_UnparsableIsInactive ==
    \A v \in Calls :
        Read(v).k \in {"malformed", "number"} =>
            /\ v.verdict.kind = "return"
            /\ v.verdict.inactive
            /\ v.verdict.warned = Shown(v)

\* what a call hands back, without the warning it printed
Answer(v) == [kind |-> v.verdict.kind, inactive |-> v.verdict.inactive,
              exc |-> v.verdict.exc]

----------------------------------------------------------------------------
(* Properties of the command line workflow *)

CallsOf(m) == {n \in DOMAIN calls : calls[n].m = m}

Members(l) == {l[n] : n \in DOMAIN l}

\* C25: a destructive client call (delete_column; delete_dataset or
\* disable_deletion_protection) is made only once the prompt for that kind of deletion
\* has been answered "yes I do"; after "no", and before the prompt, there is none.
C25_ConfirmedBeforeDestructive ==
    /\ CallsOf("delete_column") # {} => answers.columns = "yes I do"
    /\ CallsOf("delete_dataset") \cup CallsOf("disable_deletion_protection") # {}
           => answers.datasets = "yes I do"

C25_Witness ==
    /\ cli_pc = "done"
    /\ CallsOf("delete_column") # {}
    /\ answers.columns = "yes I do"
    /\ answers.datasets = "no"
    /\ CallsOf("delete_dataset") = {}

\* C26: once a deletion is confirmed, failures of the destructive calls do not end
\* the process: every inactive dataset with a slug (every inactive column with an id)
\* gets its delete call, and the run ends normally with the summary line.
C26_DeleteFailuresArePerItem ==
    /\ "yes I do" \in {answers.columns, answers.datasets} => cli_pc # "crashed"
    /\ (cli_pc = "done" /\ answers.datasets = "yes I do") =>
        /\ \A d \in Members(inactive_datasets) :
              ~Empty(d.slug) => \E n \in CallsOf("delete_dataset") :
                                   calls[n].slug = d.slug
        /\ \E l \in cli_out : l.msg = "Deleted out of datasets"
    /\ (cli_pc = "done" /\ answers.columns = "yes I do") =>
        /\ \A r \in Members(datasets_with_inactive_columns) :
              \A c \in Members(r.inactive_columns) :
                ~Empty(c.id) => \E n \in CallsOf("delete_column") :
                                   calls[n].slug = r.dataset_slug /\ calls[n].id = c.id
        /\ \E l \in cli_out : l.msg = "Deleted out of columns"

\* C27: under an allow-list of names, a dataset whose name is not listed is put in
\* neither the active nor the inactive list, and no client call names its slug: no
\* delete_dataset, no get_columns, no delete_column.
C27_AllowListShields ==
    args.name # {} =>
        /\ \A d \in Members(active_datasets) \cup Members(inactive_datasets) :
              get(d.name, "") \in args.name
        /\ \A d \in Members(filtered_out_datasets) :
              /\ get(d.name, "") \notin args.name
              /\ d \notin Members(active_datasets) \cup Members(inactive_datasets)
              /\ \A n \in DOMAIN calls : calls[n].slug # d.slug

C27_Witness ==
    /\ args.name = {"a"}
    /\ \E d \in Members(filtered_out_datasets) : ~Empty(d.slug)
    /\ CallsOf("get_columns") # {}
    /\ CallsOf("delete_column") # {}
    /\ cli_pc = "done"

----------------------------------------------------------------------------
(* Properties of the client, continued *)

\* C28: the client keeps the session __init__ created, with X-Honeycomb-Team set to
\* the API key and Content-Type set to application/json: no operation replaces the
\* session or changes the headers, and every request of every operation, retries
\* included, is sent through it with both headers.
C28_OneSessionWithBothHeaders ==
    /\ self.api_key \in ApiKeys
    /\ self.session.headers = Headers(self.api_key)
    /\ \A n \in DOMAIN http :
        /\ http[n].headers.team = self.api_key
        /\ http[n].headers.content_type = "application/json"

C28_Witness ==
    /\ pc = "done" /\ op = "delete_dataset"
    /\ \E n \in DOMAIN http : http[n].m = "PUT" /\ http[n].a > 0
    /\ \E n \in DOMAIN http : http[n].m = "DELETE" /\ http[n].a > 0
    /\ self.api_key = "key2"

\* C29: _is_deletion_protected answers true iff the body text contains "delete
\* protected" or the body is JSON with an error field containing it, and false
\* without raising otherwise.  delete_dataset calls it on a 409 when
\* disable_protection is set, and a true answer starts the unprotect sequence.
C29_ProtectionIdentified ==
    (/\ op = "delete_dataset" /\ disable_protection
     /\ Len(rets) >= 1 /\ rets[1].kind = "response" /\ rets[1].status = 409
     /\ ~(pc = "returned" /\ Len(rets) = 1)) =>
        /\ result.kind # "raise"
        /\ Msg("deletion protection detected, disabling", 0) \in out
              <=> IdentifiedProtected(rets[1])

\* C30: delete_dataset returns true only when the last request it sent was a DELETE
\* answered with a success status: a successful PUT alone does not make the result
\* true, and once the result is true the call is over and sends nothing more.
C30_TrueOnlyAfterSuccessfulDelete ==
    (op = "delete_dataset" /\ result = ReturnBool(TRUE)) =>
        /\ pc = "done"
        /\ http[Len(http)].m = "DELETE"
        /\ log[Len(log)].e = "request" /\ log[Len(log)].m = "DELETE"
        /\ log[Len(log)].got \in 200..299
        /\ rets[Len(rets)].m = "DELETE" /\ OutcomeOk(rets[Len(rets)])

C30_Witness ==
    /\ op = "delete_dataset" /\ result = ReturnBool(TRUE)
    /\ \E n \in DOMAIN http : http[n].m = "PUT"
    /\ Len(rets) = 3 /\ OutcomeOk(rets[2])

\* the invocations of the retry layer in the order delete_dataset made them, each
\* named by the HTTP method of its requests
RoundMethods(h) == [k \in 1..Cardinality(Rounds(h)) |->
    h[CHOOSE i \in Rounds(h) : Cardinality({j \in Rounds(h) : j <= i}) = k].m]

\* what is left of the at most 9 requests, counted twice, plus one while a handler
\* still has to look at what the retry layer returned
C31_Variant == 2 * (3 * max_retries - Len(http)) + (IF pc = "returned" THEN 1 ELSE 0)

C31_Bounded ==
    op = "delete_dataset" =>
        /\ Cardinality(Rounds(http)) <= 3
        /\ \A k \in DOMAIN RoundMethods(http) :
              RoundMethods(http)[k] = IF k = 2 THEN "PUT" ELSE "DELETE"
        /\ \A i \in DOMAIN http :
              /\ http[i].a < max_retries
              /\ i = 1 => http[i].a = 0
              /\ i > 1 => \/ http[i].a = 0
                          \/ http[i].a = http[i - 1].a + 1 /\ http[i].m = http[i - 1].m
        /\ Len(http) <= 9
        /\ Cardinality({i \in DOMAIN http : http[i].m = "PUT"}) <= 3
        /\ C31_Variant >= 0
        /\ pc \in {"retry", "returned", "done"}
        /\ pc = "retry" => attempt < max_retries
        /\ pc = "returned" => caller \in {"delete_dataset", "disable_deletion_protection",
                                          "_retry_delete_after_unprotect"}

C31_Step ==
    (op = "delete_dataset" /\ pc \in {"retry", "returned"}) =>
        /\ op' = "delete_dataset"
        /\ C31_Variant' < C31_Variant

\* C31: every delete_dataset call terminates whatever the server does: it invokes the
\* retry layer at most three times (DELETE, then at most one PUT, then at most one
\* DELETE), each invocation counts its attempts from 0 up to at most 3, so at most 9
\* requests are sent, at most 3 of them PUTs; until the call is over a next step is
\* always possible and every step uses up some of that budget.
C31_DeleteDatasetTerminates == []C31_Bounded /\ [][C31_Step]_vars

C31_Witness ==
    /\ op = "delete_dataset" /\ pc = "done"
    /\ Len(http) = 9
    /\ Cardinality({i \in DOMAIN http : http[i].m = "PUT"}) = 3
    /\ Len(rets) = 3

----------------------------------------------------------------------------
(* Properties of the command line workflow, continued *)

\* the classifier's answers as the run obtained them
InactiveDataset(d) == \E now \in CliNows : is_dataset_inactive(d, days, now).inactive
InactiveColumn(c) == \E now \in CliNows : is_column_inactive(c, days, now).inactive

\* the columns get_columns returned for the dataset with this slug
ListedColumns(slug) ==
    UNION {Members(calls[g].got) : g \in {n \in CallsOf("get_columns") :
                                             calls[n].slug = slug}}

\* C32: every delete_column call of a run names a dataset the run classified active
\* (not inactive, not filtered out by --name) and a column that get_columns listed
\* for that dataset before and that the classifier marked inactive; a column the
\* classifier marked active gets no delete_column call.
C32_OnlyInactiveColumnsOfActiveDatasets ==
    \A n \in CallsOf("delete_column") :
        /\ \E d \in Members(active_datasets) :
              /\ d.slug = calls[n].slug
              /\ ~InactiveDataset(d)
              /\ ~NotListed(d, args)
        /\ \A d \in Members(inactive_datasets) \cup Members(filtered_out_datasets) :
              d.slug # calls[n].slug
        /\ \E g \in CallsOf("get_columns") :
              /\ g < n
              /\ calls[g].slug = calls[n].slug
              /\ \E c \in Members(calls[g].got) : c.id = calls[n].id
        /\ \A c \in ListedColumns(calls[n].slug) :
              c.id = calls[n].id => InactiveColumn(c)

C32_Witness ==
    /\ cli_pc = "done"
    /\ CallsOf("delete_column") # {} /\ deleted.columns > 0
    /\ \E g \in CallsOf("get_columns") :
          \E c \in Members(calls[g].got) : ~Empty(c.id) /\ ~InactiveColumn(c)

\* the record carries no slug, or no id: the key is missing or its value is ""
NoIdentifier(v) == v = "absent"

\* the calls of method m that came back without raising
ReturnedCalls(m) == {n \in CallsOf(m) : calls[n].raised \in {"", "none"}}

\* C33: no client call of a run carries an empty identifier: get_columns,
\* delete_column and delete_dataset are called with a slug, delete_column with a
\* column id as well; a dataset without slug and a column without id are skipped with
\* a "Skipping" line and without a call, so the deleted counts never exceed the
\* calls that came back.
C33_NoCallWithEmptyIdentifier ==
    /\ \A n \in CallsOf("get_columns") \cup CallsOf("delete_column")
                \cup CallsOf("delete_dataset") : ~NoIdentifier(calls[n].slug)
    /\ \A n \in CallsOf("delete_column") : ~NoIdentifier(calls[n].id)
    /\ deleted.columns <= Cardinality(ReturnedCalls("delete_column"))
    /\ deleted.datasets <= Cardinality(ReturnedCalls("delete_dataset"))
    /\ \A l \in cli_out :
          /\ l.msg = "Deleted out of columns" =>
                l.n <= Cardinality(ReturnedCalls("delete_column"))
          /\ l.msg = "Deleted out of datasets" =>
                l.n <= Cardinality(ReturnedCalls("delete_dataset"))
    /\ (cli_pc = "done" /\ answers.columns = "yes I do") =>
          \A r \in Members(datasets_with_inactive_columns) :
            \A c \in Members(r.inactive_columns) :
              NoIdentifier(c.id) =>
                /\ \E l \in cli_out : l.msg = "Skipping: no ID found"
                /\ \A g \in CallsOf("get_columns") :
                      (calls[g].slug = r.dataset_slug /\ Len(calls[g].got) = 1) =>
                          \A n \in CallsOf("delete_column") :
                              calls[n].slug # r.dataset_slug

C33_Witness ==
    /\ cli_pc = "done"
    /\ \E l \in cli_out : l.msg = "Skipping: no ID found"
    /\ \E l \in cli_out : l.msg = "Skipping: no slug found"
    /\ \E l \in cli_out : l.msg = "Deleted out of columns" /\ l.n = 0 /\ l.of = 1
    /\ CallsOf("get_columns") # {}
    /\ CallsOf("delete_column") = {}

====
